---- MODULE Spec2Model ----
(***************************************************************************)
(* A model of boa's vm::call_frame module (core/engine/src/vm/call_frame/  *)
(* mod.rs): the CallFrame record, its stack-layout accessors, the frame    *)
(* flags, the promise-capability registers and the GeneratorResumeKind     *)
(* conversions.                                                            *)
(*                                                                         *)
(* Rust indices are 0-based, TLA+ sequences 1-based: stack index i is      *)
(* stack[i + 1].  All u32/usize quantities of the model stay far below     *)
(* 2^31, so a subtraction that wraps (a build without overflow checks)     *)
(* yields a value >= 2^32 - small; such a value is written as its          *)
(* two's-complement negative (-k stands for 2^32 - k, or 2^64 - k for a    *)
(* usize).  A negative index is therefore an index far beyond any stack.   *)
(***************************************************************************)
EXTENDS Integers, Sequences, FiniteSets

VARIABLES
    frame,             \* the CallFrame
    stack,             \* vm.stack, the shared value stack
    registers,         \* the frame's register window (Registers)
    resume_value,      \* a JsValue handed to a resumed generator
    last,              \* the last operation: its name, argument, outcome, result
    debug_assertions,  \* the build: debug assertions and overflow checks on or off
    panicked           \* a panic ended the execution

vars == <<frame, stack, registers, resume_value, last, debug_assertions, panicked>>

----------------------------------------------------------------------------
(* Bounds of the model *)

MaxStack == 5
MaxRp == 5
MaxArgs == 2
MaxIndex == 2
MaxEnvFp == 2
ExtraRegisters == 0
MaxInt == 4

----------------------------------------------------------------------------
(* Values: JsValue, JsObject, Option, and the outcome of a call *)

\* What `last` records is always a record, so that any two of them compare:
\* a number, a boolean, a slice and a resume kind are wrapped.
NoValue == [none |-> TRUE]
IntV(i) == [int |-> i]
BoolV(b) == [bool |-> b]
SliceV(s) == [slice |-> s]
KindV(k) == [kind |-> k]

JsUndefined == [tag |-> "undefined", n |-> 0, callable |-> FALSE]
JsInteger(i) == [tag |-> "integer", n |-> i, callable |-> FALSE]
JsRational(i) == [tag |-> "rational", n |-> i, callable |-> FALSE]

\* A JsObject: an identity and whether it is callable.
JsObject(id, c) == [id |-> id, callable |-> c]
\* JsValue::from(JsObject)
ObjectValue(o) == [tag |-> "object", n |-> o.id, callable |-> o.callable]

None == [some |-> FALSE]
Some(x) == [some |-> TRUE, val |-> x]

Ok(x) == [outcome |-> "ok", value |-> x]
Panic == [outcome |-> "panic", value |-> NoValue]

\* JsValue::as_object
as_object(v) == IF v.tag = "object" THEN Some(JsObject(v.n, v.callable)) ELSE None

\* JsValue::as_i32
as_i32(v) == IF v.tag = "integer" THEN Some(v.n) ELSE None

\* JsFunction::from_object: a JsFunction wraps a callable JsObject.
JsFunction_from_object(o) == IF o.callable THEN Some([inner |-> o]) ELSE None
\* JsValue::from(JsFunction)
FunctionValue(f) == ObjectValue(f.inner)

\* vm.stack[index]: a bounds-checked read
stack_in_bounds(stk, index) == index >= 0 /\ index < Len(stk)
stack_at(stk, index) == stk[index + 1]

\* Vec::truncate(len): no effect when len is not below the current length
truncate(stk, len) == IF len >= 0 /\ len < Len(stk) THEN SubSeq(stk, 1, len) ELSE stk

\* An unsigned subtraction a - b: whether it overflows, and its wrapped value.
sub_overflows(a, b) == a >= 0 /\ a < b
wrapping_sub(a, b) == a - b

----------------------------------------------------------------------------
(* CallFrame constants *)

FUNCTION_PROLOGUE == 2
THIS_POSITION == 2
FUNCTION_POSITION == 1
PROMISE_CAPABILITY_PROMISE_REGISTER_INDEX == 0
PROMISE_CAPABILITY_RESOLVE_REGISTER_INDEX == 1
PROMISE_CAPABILITY_REJECT_REGISTER_INDEX == 2
ASYNC_GENERATOR_OBJECT_REGISTER_INDEX == 3

(* CallFrameFlags *)
EXIT_EARLY == 1
CONSTRUCT == 2
REGISTERS_ALREADY_PUSHED == 4
THIS_VALUE_CACHED == 8

----------------------------------------------------------------------------
(* CallFrame creation methods *)

\* A CodeBlock, as far as the frame consults it.
CodeBlock(is_async, is_generator) ==
    [is_async |-> is_async, is_generator |-> is_generator, local_bindings_initialized |-> <<>>]

CodeBlocks == {CodeBlock(a, g) : a \in BOOLEAN, g \in BOOLEAN}

is_async(code_block) == code_block.is_async
is_async_generator(code_block) == code_block.is_async /\ code_block.is_generator

new(code_block) ==
    [pc |-> 0,
     rp |-> 0,
     env_fp |-> 0,
     argument_count |-> 0,
     iterators |-> <<>>,
     binding_stack |-> <<>>,
     local_bindings_initialized |-> code_block.local_bindings_initialized,
     code_block |-> code_block,
     loop_iteration_count |-> 0,
     flags |-> 0]

with_argument_count(self, count) == [self EXCEPT !.argument_count = count]

with_env_fp(self, env_fp) == [self EXCEPT !.env_fp = env_fp]

with_flags(self, flags) == [self EXCEPT !.flags = flags]

\* set_register_pointer taking the pointer as the frame pointer
set_register_pointer_from_fp(self, pointer) ==
    [self EXCEPT !.rp = pointer + self.argument_count + FUNCTION_PROLOGUE]

set_register_pointer(self, pointer) == [self EXCEPT !.rp = pointer]

----------------------------------------------------------------------------
(* Stack-layout accessors.  dbg: the build checks arithmetic overflow. *)

\* rp - argument_count - offset in u32: a panic (checked build) or the wrapped value
prologue_index(self, offset, dbg) ==
    LET d1 == wrapping_sub(self.rp, self.argument_count)
        d2 == wrapping_sub(d1, offset)
    IN  IF dbg /\ (sub_overflows(self.rp, self.argument_count) \/ sub_overflows(d1, offset))
        THEN Panic
        ELSE Ok(d2)

\* fp with the prologue taken one slot short
fp_short_prologue(self, dbg) == prologue_index(self, FUNCTION_PROLOGUE - 1, dbg)

fp(self, dbg) == prologue_index(self, FUNCTION_PROLOGUE, dbg)

\* this reading the function's slot
this_reads_function_slot(self, stk, dbg) ==
    LET this_index == prologue_index(self, FUNCTION_POSITION, dbg)
    IN  IF this_index.outcome = "panic" THEN Panic
        ELSE IF stack_in_bounds(stk, this_index.value)
             THEN Ok(stack_at(stk, this_index.value))
             ELSE Panic

this(self, stk, dbg) ==
    LET this_index == prologue_index(self, THIS_POSITION, dbg)
    IN  IF this_index.outcome = "panic" THEN Panic
        ELSE IF stack_in_bounds(stk, this_index.value)
             THEN Ok(stack_at(stk, this_index.value))
             ELSE Panic

\* function reading the slot of this
function_reads_this_slot(self, stk, dbg) ==
    LET function_index == prologue_index(self, THIS_POSITION, dbg)
    IN  IF function_index.outcome = "panic" THEN Panic
        ELSE IF stack_in_bounds(stk, function_index.value)
             THEN Ok(as_object(stack_at(stk, function_index.value)))
             ELSE Panic

function(self, stk, dbg) ==
    LET function_index == prologue_index(self, FUNCTION_POSITION, dbg)
    IN  IF function_index.outcome = "panic" THEN Panic
        ELSE IF stack_in_bounds(stk, function_index.value)
             THEN Ok(as_object(stack_at(stk, function_index.value)))
             ELSE Panic

\* arguments with the prologue included
arguments_from_fp(self, stk, dbg) ==
    LET rp == self.rp
        arguments_start == wrapping_sub(rp, self.argument_count + FUNCTION_PROLOGUE)
    IN  IF dbg /\ sub_overflows(rp, self.argument_count + FUNCTION_PROLOGUE) THEN Panic
        ELSE IF arguments_start < 0 \/ arguments_start > rp \/ rp > Len(stk) THEN Panic
        ELSE Ok(SubSeq(stk, arguments_start + 1, rp))

\* &vm.stack[arguments_start..rp] panics when the range is not within the stack.
arguments(self, stk, dbg) ==
    LET rp == self.rp
        argument_count == self.argument_count
        arguments_start == wrapping_sub(rp, argument_count)
    IN  IF dbg /\ sub_overflows(rp, argument_count) THEN Panic
        ELSE IF arguments_start < 0 \/ arguments_start > rp \/ rp > Len(stk) THEN Panic
        ELSE Ok(SubSeq(stk, arguments_start + 1, rp))

\* slice.get(index)
slice_get(slice, index) == IF index < Len(slice) THEN Some(slice[index + 1]) ELSE None

argument(self, index, stk, dbg) ==
    LET args == arguments(self, stk, dbg)
    IN  IF args.outcome = "panic" THEN Panic ELSE Ok(slice_get(args.value, index))

\* restore_stack keeping the prologue on the stack
restore_stack_keeps_prologue(self, stk, dbg) ==
    Ok(truncate(stk, self.rp - self.argument_count))

\* The stack restore_stack leaves, or a panic.
restore_stack(self, stk, dbg) ==
    LET fp_ == fp(self, dbg)
    IN  IF fp_.outcome = "panic" THEN Panic ELSE Ok(truncate(stk, fp_.value))

----------------------------------------------------------------------------
(* Capability threading: the reserved registers of an async frame *)

\* Registers::get and Registers::set
registers_get(regs, index) == regs[index + 1]
registers_set(regs, index, value) == [regs EXCEPT ![index + 1] = value]

\* A PromiseCapability: a promise object and its two resolving functions.
PromiseCapability(promise, resolve, reject) ==
    [promise |-> promise, functions |-> [resolve |-> resolve, reject |-> reject]]

\* async_generator_object asking for an async function, not an async generator
async_generator_object_of_async(self, regs) ==
    IF ~is_async(self.code_block) THEN None
    ELSE as_object(registers_get(regs, ASYNC_GENERATOR_OBJECT_REGISTER_INDEX))

async_generator_object(self, regs) ==
    IF ~is_async_generator(self.code_block) THEN None
    ELSE as_object(registers_get(regs, ASYNC_GENERATOR_OBJECT_REGISTER_INDEX))

\* Option::and_then(JsFunction::from_object)
and_then_from_object(o) == IF o.some THEN JsFunction_from_object(o.val) ELSE None

\* promise_capability with the resolve and reject registers exchanged
promise_capability_swapped(self, regs) ==
    IF ~is_async(self.code_block) THEN None
    ELSE LET promise == as_object(registers_get(regs, PROMISE_CAPABILITY_PROMISE_REGISTER_INDEX))
             resolve == and_then_from_object(
                 as_object(registers_get(regs, PROMISE_CAPABILITY_REJECT_REGISTER_INDEX)))
             reject == and_then_from_object(
                 as_object(registers_get(regs, PROMISE_CAPABILITY_RESOLVE_REGISTER_INDEX)))
         IN  IF ~promise.some \/ ~resolve.some \/ ~reject.some THEN None
             ELSE Some(PromiseCapability(promise.val, resolve.val, reject.val))

promise_capability(self, regs) ==
    IF ~is_async(self.code_block) THEN None
    ELSE LET promise == as_object(registers_get(regs, PROMISE_CAPABILITY_PROMISE_REGISTER_INDEX))
             resolve == and_then_from_object(
                 as_object(registers_get(regs, PROMISE_CAPABILITY_RESOLVE_REGISTER_INDEX)))
             reject == and_then_from_object(
                 as_object(registers_get(regs, PROMISE_CAPABILITY_REJECT_REGISTER_INDEX)))
         IN  IF ~promise.some THEN None
             ELSE IF ~resolve.some THEN None
             ELSE IF ~reject.some THEN None
             ELSE Some(PromiseCapability(promise.val, resolve.val, reject.val))

\* The three register writes of set_promise_capability.
write_promise_capability(regs, promise_capability_) ==
    LET promise == IF promise_capability_.some
                   THEN ObjectValue(promise_capability_.val.promise) ELSE JsUndefined
        resolve == IF promise_capability_.some
                   THEN FunctionValue(promise_capability_.val.functions.resolve) ELSE JsUndefined
        reject == IF promise_capability_.some
                  THEN FunctionValue(promise_capability_.val.functions.reject) ELSE JsUndefined
        r0 == registers_set(regs, PROMISE_CAPABILITY_PROMISE_REGISTER_INDEX, promise)
        r1 == registers_set(r0, PROMISE_CAPABILITY_RESOLVE_REGISTER_INDEX, resolve)
    IN  registers_set(r1, PROMISE_CAPABILITY_REJECT_REGISTER_INDEX, reject)

\* set_promise_capability with its assertion left out
set_promise_capability_unchecked(self, regs, promise_capability_, dbg) ==
    Ok(write_promise_capability(regs, promise_capability_))

\* The registers set_promise_capability leaves, or the panic of its debug_assert!,
\* which only a build with debug assertions evaluates.
set_promise_capability(self, regs, promise_capability_, dbg) ==
    IF dbg /\ ~is_async(self.code_block) THEN Panic
    ELSE Ok(write_promise_capability(regs, promise_capability_))

----------------------------------------------------------------------------
(* CallFrameFlags: a u8 bit set *)

\* bitflags: contains, insert, remove and set, for a flag of a single bit
flags_contains(flags, flag) == (flags \div flag) % 2 = 1
flags_insert(flags, flag) == IF flags_contains(flags, flag) THEN flags ELSE flags + flag
flags_remove(flags, flag) == IF flags_contains(flags, flag) THEN flags - flag ELSE flags
flags_set(flags, flag, value) ==
    IF value THEN flags_insert(flags, flag) ELSE flags_remove(flags, flag)

exit_early(self) == flags_contains(self.flags, EXIT_EARLY)

\* set_exit_early replacing the whole flag set
set_exit_early_overwrites(self, early_exit) ==
    [self EXCEPT !.flags = IF early_exit THEN EXIT_EARLY ELSE 0]

set_exit_early(self, early_exit) ==
    [self EXCEPT !.flags = flags_set(self.flags, EXIT_EARLY, early_exit)]

construct(self) == flags_contains(self.flags, CONSTRUCT)

registers_already_pushed(self) == flags_contains(self.flags, REGISTERS_ALREADY_PUSHED)

has_this_value_cached(self) == flags_contains(self.flags, THIS_VALUE_CACHED)

----------------------------------------------------------------------------
(* GeneratorResumeKind and its conversions *)

GeneratorResumeKinds == {"Normal", "Throw", "Return"}

\* value as u8: the discriminants of the enum
resume_kind_as_u8(kind) ==
    CASE kind = "Normal" -> 0
      [] kind = "Throw" -> 1
      [] kind = "Return" -> 2

\* impl From<GeneratorResumeKind> for JsValue
resume_kind_to_value(kind) == JsInteger(resume_kind_as_u8(kind))

\* to_generator_resume_kind taking any other integer for Normal
to_generator_resume_kind_lenient(value) ==
    LET i == as_i32(value)
    IN  IF i.some
        THEN CASE i.val = 1 -> Ok("Throw")
               [] i.val = 2 -> Ok("Return")
               [] OTHER -> Ok("Normal")
        ELSE Panic

to_generator_resume_kind(value) ==
    LET i == as_i32(value)
    IN  IF i.some
        THEN CASE i.val = 0 -> Ok("Normal")
               [] i.val = 1 -> Ok("Throw")
               [] i.val = 2 -> Ok("Return")
               [] OTHER -> Panic
        ELSE Panic

----------------------------------------------------------------------------
(* The state machine: common parts *)

BoundedSeq(S, n) == UNION {[1..k -> S] : k \in 0..n}

Objects == {JsObject(1, TRUE), JsObject(2, TRUE), JsObject(3, FALSE)}

StackValues == {JsUndefined, ObjectValue(JsObject(1, TRUE)), ObjectValue(JsObject(3, FALSE))}

Called(op, arg, r) == [op |-> op, arg |-> arg, outcome |-> r.outcome, value |-> r.value]

NoCall == Called("none", NoValue, Ok(NoValue))

\* The result r of a call, its value wrapped by W when the call returned.
IntResult(r) == IF r.outcome = "ok" THEN Ok(IntV(r.value)) ELSE r
SliceResult(r) == IF r.outcome = "ok" THEN Ok(SliceV(r.value)) ELSE r
KindResult(r) == IF r.outcome = "ok" THEN Ok(KindV(r.value)) ELSE r

\* A call that only reads: its result is recorded, a panic ends the execution.
Returns(op, arg, r) ==
    /\ last' = Called(op, arg, r)
    /\ panicked' = (r.outcome = "panic")

----------------------------------------------------------------------------
(* The stack layout: a frame set up over a shared stack *)

InitStack ==
    /\ frame = new(CodeBlock(FALSE, FALSE))
    /\ stack \in BoundedSeq(StackValues, MaxStack)
    /\ registers = <<>>
    /\ resume_value = JsUndefined
    /\ last = NoCall
    /\ debug_assertions \in BOOLEAN
    /\ panicked = FALSE

WithArgumentCount(count) ==
    /\ ~panicked
    /\ frame' = with_argument_count(frame, count)
    /\ Returns("with_argument_count", IntV(count), Ok(NoValue))
    /\ UNCHANGED <<stack, registers, resume_value, debug_assertions>>

SetRegisterPointer(pointer) ==
    /\ ~panicked
    /\ frame' = set_register_pointer(frame, pointer)
    /\ Returns("set_register_pointer", IntV(pointer), Ok(NoValue))
    /\ UNCHANGED <<stack, registers, resume_value, debug_assertions>>

This ==
    /\ ~panicked
    /\ Returns("this", NoValue, this(frame, stack, debug_assertions))
    /\ UNCHANGED <<frame, stack, registers, resume_value, debug_assertions>>

Function ==
    /\ ~panicked
    /\ Returns("function", NoValue, function(frame, stack, debug_assertions))
    /\ UNCHANGED <<frame, stack, registers, resume_value, debug_assertions>>

Arguments ==
    /\ ~panicked
    /\ Returns("arguments", NoValue, SliceResult(arguments(frame, stack, debug_assertions)))
    /\ UNCHANGED <<frame, stack, registers, resume_value, debug_assertions>>

Argument(index) ==
    /\ ~panicked
    /\ Returns("argument", IntV(index), argument(frame, index, stack, debug_assertions))
    /\ UNCHANGED <<frame, stack, registers, resume_value, debug_assertions>>

Fp ==
    /\ ~panicked
    /\ Returns("fp", NoValue, IntResult(fp(frame, debug_assertions)))
    /\ UNCHANGED <<frame, stack, registers, resume_value, debug_assertions>>

RestoreStack ==
    /\ ~panicked
    /\ LET r == restore_stack(frame, stack, debug_assertions)
       IN  /\ stack' = IF r.outcome = "ok" THEN r.value ELSE stack
           /\ Returns("restore_stack", NoValue,
                      IF r.outcome = "ok" THEN Ok(NoValue) ELSE Panic)
    /\ UNCHANGED <<frame, registers, resume_value, debug_assertions>>

NextStack ==
    \/ \E count \in 0..MaxArgs : WithArgumentCount(count)
    \/ \E pointer \in 0..MaxRp : SetRegisterPointer(pointer)
    \/ This
    \/ Function
    \/ Arguments
    \/ \E index \in 0..MaxIndex : Argument(index)
    \/ Fp
    \/ RestoreStack

SpecStack == InitStack /\ [][NextStack]_vars

----------------------------------------------------------------------------
(* Properties of the stack layout *)

\* The frame has room for its prologue below the register pointer.
Valid(f) == f.rp >= f.argument_count + FUNCTION_PROLOGUE

\* The stack holds every slot up to the register pointer.
StackHolds(f, stk) == Len(stk) >= f.rp

\* The frame pointer, as the specification defines it.
FramePointer(f) == f.rp - f.argument_count - 2

\* C1: on a frame with rp >= argument_count + 2 over a stack at least rp long,
\* fp() returns rp - argument_count - 2 and this() returns the stack slot at
\* that index; neither call changes the frame or the stack.
C1_FpAndThis ==
    [][(Valid(frame) /\ StackHolds(frame, stack)) =>
        /\ last'.op = "fp" =>
            /\ last'.outcome = "ok"
            /\ last'.value = IntV(frame.rp - frame.argument_count - 2)
            /\ frame' = frame /\ stack' = stack
        /\ last'.op = "this" =>
            /\ last'.outcome = "ok"
            /\ last'.value = stack[FramePointer(frame) + 1]
            /\ frame' = frame /\ stack' = stack]_vars

\* this() has read an object from index 1 of a frame with two arguments and rp = 5.
C1_Witness ==
    /\ last.op = "this" /\ last.outcome = "ok"
    /\ frame.argument_count = 2 /\ frame.rp = 5
    /\ Len(stack) = 5
    /\ last.value = ObjectValue(JsObject(1, TRUE))
    /\ stack[1] = JsUndefined /\ stack[3] = JsUndefined

\* C2 as stated: rp >= argument_count + 2 in every reachable state of a frame.
C2_AlwaysValid == Valid(frame)

\* C2, amended: a new frame has rp = 0 and argument_count = 0 (so the
\* inequality does not hold yet); with_argument_count changes only
\* argument_count and set_register_pointer only rp, so that the inequality
\* holds after set_register_pointer(p) exactly when p >= argument_count + 2 and
\* after with_argument_count(c) exactly when rp >= c + 2; every other
\* operation leaves rp and argument_count, and so the inequality, as they are.
C2_ValidOncePushed ==
    /\ [](last.op = "none" => (frame.rp = 0 /\ frame.argument_count = 0 /\ ~Valid(frame)))
    /\ [][/\ last'.op = "set_register_pointer" =>
                /\ frame'.argument_count = frame.argument_count
                /\ frame'.rp = last'.arg.int
                /\ Valid(frame') <=> (last'.arg.int >= frame.argument_count + 2)
          /\ last'.op = "with_argument_count" =>
                /\ frame'.rp = frame.rp
                /\ frame'.argument_count = last'.arg.int
                /\ Valid(frame') <=> (frame.rp >= last'.arg.int + 2)
          /\ last'.op \notin {"set_register_pointer", "with_argument_count"} =>
                /\ frame'.rp = frame.rp
                /\ frame'.argument_count = frame.argument_count
                /\ Valid(frame') <=> Valid(frame)]_vars

\* set_register_pointer has made a frame with arguments valid.
C2_Witness ==
    /\ last.op = "set_register_pointer"
    /\ frame.argument_count = 2
    /\ last.arg = IntV(4)
    /\ Valid(frame)

\* C3: restore_stack on a frame with rp >= argument_count + 2, over a stack at
\* least fp() long, leaves the stack with length exactly fp(), every slot below
\* fp() as it was, and the frame unchanged.
C3_RestoreStack ==
    [][(Valid(frame) /\ Len(stack) >= FramePointer(frame) /\ last'.op = "restore_stack") =>
        /\ last'.outcome = "ok"
        /\ Len(stack') = FramePointer(frame)
        /\ \A i \in 1..FramePointer(frame) : stack'[i] = stack[i]
        /\ frame' = frame]_vars

\* restore_stack has cut the stack of a valid frame down to a frame pointer of 2.
C3_Witness ==
    /\ last.op = "restore_stack" /\ last.outcome = "ok"
    /\ Valid(frame)
    /\ FramePointer(frame) = 2
    /\ Len(stack) = 2
    /\ stack[2] = ObjectValue(JsObject(3, FALSE))

\* C4: on a frame with rp >= argument_count + 2 whose stack holds the slots up to
\* rp, arguments() returns the slots [fp+2, fp+2+argument_count) = [rp-argument_count, rp)
\* in order, and argument(index) the slot fp+2+index when index < argument_count
\* and nothing when index >= argument_count.
C4_Arguments ==
    (Valid(frame) /\ StackHolds(frame, stack)) =>
        /\ last.op = "arguments" =>
            /\ last.outcome = "ok"
            /\ Len(last.value.slice) = frame.argument_count
            /\ \A i \in 0..(frame.argument_count - 1) :
                  /\ last.value.slice[i + 1] = stack[FramePointer(frame) + 2 + i + 1]
                  /\ last.value.slice[i + 1] = stack[frame.rp - frame.argument_count + i + 1]
        /\ last.op = "argument" =>
            /\ last.outcome = "ok"
            /\ last.arg.int < frame.argument_count =>
                  /\ last.value.some
                  /\ last.value.val = stack[FramePointer(frame) + 2 + last.arg.int + 1]
            /\ last.arg.int >= frame.argument_count => ~last.value.some

\* arguments() has returned two different values of a frame with room below it.
C4_Witness ==
    /\ last.op = "arguments" /\ last.outcome = "ok"
    /\ frame.argument_count = 2 /\ frame.rp = 5
    /\ last.value = SliceV(<<ObjectValue(JsObject(1, TRUE)), JsUndefined>>)
    /\ stack[3] = ObjectValue(JsObject(3, FALSE))

\* C5: on a frame with rp >= argument_count + 2 whose stack holds the slot
\* fp()+1, function() returns an object exactly when the slot at fp()+1 holds an
\* object, and then that object; for any other slot value it returns nothing,
\* without a panic.
C5_Function ==
    (last.op = "function" /\ Valid(frame) /\ Len(stack) >= FramePointer(frame) + 2) =>
        LET slot == stack[FramePointer(frame) + 1 + 1]
        IN  /\ last.outcome = "ok"
            /\ last.value.some <=> (slot.tag = "object")
            /\ last.value.some => ObjectValue(last.value.val) = slot
            /\ slot.tag # "object" => ~last.value.some

\* function() has returned the object of the function slot, next to a this
\* slot that holds another object.
C5_Witness ==
    /\ last.op = "function" /\ last.outcome = "ok"
    /\ Valid(frame) /\ frame.argument_count = 1
    /\ last.value.some /\ last.value.val = JsObject(1, TRUE)
    /\ stack[FramePointer(frame) + 1] = ObjectValue(JsObject(3, FALSE))

----------------------------------------------------------------------------
(* Capability threading: a frame over its register window *)

\* The registers an async frame reserves: indices 0 to 3.
RESERVED_REGISTERS == ASYNC_GENERATOR_OBJECT_REGISTER_INDEX + 1

RegisterValues == {JsUndefined} \cup {ObjectValue(o) : o \in Objects}

Functions == {[inner |-> o] : o \in {x \in Objects : x.callable}}

PromiseCapabilities ==
    {PromiseCapability(p, f, g) : p \in Objects, f \in Functions, g \in Functions}

InitCap ==
    /\ frame \in {new(code_block) : code_block \in CodeBlocks}
    /\ stack = <<>>
    /\ registers \in [1..(RESERVED_REGISTERS + ExtraRegisters) -> RegisterValues]
    /\ resume_value = JsUndefined
    /\ last = NoCall
    /\ debug_assertions \in BOOLEAN
    /\ panicked = FALSE

AsyncGeneratorObject ==
    /\ ~panicked
    /\ Returns("async_generator_object", NoValue, Ok(async_generator_object(frame, registers)))
    /\ UNCHANGED <<frame, stack, registers, resume_value, debug_assertions>>

GetPromiseCapability ==
    /\ ~panicked
    /\ Returns("promise_capability", NoValue, Ok(promise_capability(frame, registers)))
    /\ UNCHANGED <<frame, stack, registers, resume_value, debug_assertions>>

SetPromiseCapability(capability) ==
    /\ ~panicked
    /\ LET r == set_promise_capability(frame, registers, capability, debug_assertions)
       IN  /\ registers' = IF r.outcome = "ok" THEN r.value ELSE registers
           /\ Returns("set_promise_capability", capability,
                      IF r.outcome = "ok" THEN Ok(NoValue) ELSE Panic)
    /\ UNCHANGED <<frame, stack, resume_value, debug_assertions>>

NextCap ==
    \/ AsyncGeneratorObject
    \/ GetPromiseCapability
    \/ \E capability \in {None} \cup {Some(c) : c \in PromiseCapabilities} :
          SetPromiseCapability(capability)

SpecCap == InitCap /\ [][NextCap]_vars

\* C6: on an async frame, promise_capability right after a completed
\* set_promise_capability(Some(cap)) returns cap, read back from the promise in
\* register 0, resolve in register 1 and reject in register 2; on a frame that
\* is not async, promise_capability returns nothing whatever the registers hold.
C6_CapabilityRoundTrip ==
    [][last'.op = "promise_capability" =>
        /\ last'.outcome = "ok"
        /\ (/\ is_async(frame.code_block)
            /\ last.op = "set_promise_capability" /\ last.outcome = "ok"
            /\ last.arg.some) =>
                /\ last'.value.some
                /\ last'.value.val = last.arg.val
                /\ registers[1] = ObjectValue(last'.value.val.promise)
                /\ registers[2] = FunctionValue(last'.value.val.functions.resolve)
                /\ registers[3] = FunctionValue(last'.value.val.functions.reject)
        /\ ~is_async(frame.code_block) => ~last'.value.some]_vars

\* promise_capability has returned, on an async frame, a capability whose
\* resolve and reject differ.
C6_Witness ==
    /\ last.op = "promise_capability"
    /\ is_async(frame.code_block)
    /\ last.value.some
    /\ last.value.val = PromiseCapability(JsObject(3, FALSE),
                                          [inner |-> JsObject(1, TRUE)],
                                          [inner |-> JsObject(2, TRUE)])

\* C7 as stated: no call of set_promise_capability on a frame that is not async
\* completes normally.
C7_AlwaysCaught ==
    ~(/\ last.op = "set_promise_capability"
      /\ ~is_async(frame.code_block)
      /\ last.outcome = "ok")

\* C7, amended: set_promise_capability on a frame that is not async panics,
\* leaving the registers as they were, in a build with debug assertions; in a
\* build without them the call completes and overwrites registers 0-2.
C7_CaughtByDebugAssertion ==
    [][(last'.op = "set_promise_capability" /\ ~is_async(frame.code_block)) =>
        IF debug_assertions
        THEN /\ last'.outcome = "panic"
             /\ panicked'
             /\ registers' = registers
        ELSE /\ last'.outcome = "ok"
             /\ ~panicked'
             /\ registers' = write_promise_capability(registers, last'.arg)]_vars

\* The debug assertion has stopped a call on a frame that is not async.
C7_Witness ==
    /\ last.op = "set_promise_capability"
    /\ ~is_async(frame.code_block)
    /\ debug_assertions
    /\ last.outcome = "panic"
    /\ last.arg.some

\* C10: async_generator_object returns an object exactly when the code block is
\* an async generator and register 3 holds an object, and then that object; it
\* returns nothing for any other code block and for a register 3 that holds no
\* object.
C10_AsyncGeneratorObject ==
    last.op = "async_generator_object" =>
        LET slot == registers[ASYNC_GENERATOR_OBJECT_REGISTER_INDEX + 1]
        IN  /\ last.outcome = "ok"
            /\ last.value.some <=>
                  (frame.code_block.is_async /\ frame.code_block.is_generator
                   /\ slot.tag = "object")
            /\ last.value.some => ObjectValue(last.value.val) = slot

\* async_generator_object has returned the object of register 3 of an async
\* generator whose register 0 holds no object.
C10_Witness ==
    /\ last.op = "async_generator_object"
    /\ last.value.some /\ last.value.val = JsObject(3, FALSE)
    /\ registers[1] = JsUndefined

----------------------------------------------------------------------------
(* The frame's flags, and the resumption of a suspended generator frame *)

AllFlags == EXIT_EARLY + CONSTRUCT + REGISTERS_ALREADY_PUSHED + THIS_VALUE_CACHED

ResumeValues ==
    {JsInteger(i) : i \in (-2)..MaxInt}
        \cup {JsRational(i) : i \in 0..2}
        \cup {JsUndefined, ObjectValue(JsObject(1, TRUE))}

InitFrame ==
    /\ frame = new(CodeBlock(FALSE, TRUE))
    /\ stack = <<>>
    /\ registers = <<>>
    /\ resume_value = JsUndefined
    /\ last = NoCall
    /\ debug_assertions \in BOOLEAN
    /\ panicked = FALSE

WithEnvFp(env_fp) ==
    /\ ~panicked
    /\ frame' = with_env_fp(frame, env_fp)
    /\ Returns("with_env_fp", IntV(env_fp), Ok(NoValue))
    /\ UNCHANGED <<stack, registers, resume_value, debug_assertions>>

WithFlags(flags) ==
    /\ ~panicked
    /\ frame' = with_flags(frame, flags)
    /\ Returns("with_flags", IntV(flags), Ok(NoValue))
    /\ UNCHANGED <<stack, registers, resume_value, debug_assertions>>

SetExitEarly(early_exit) ==
    /\ ~panicked
    /\ frame' = set_exit_early(frame, early_exit)
    /\ Returns("set_exit_early", BoolV(early_exit), Ok(NoValue))
    /\ UNCHANGED <<stack, registers, resume_value, debug_assertions>>

ExitEarly ==
    /\ ~panicked
    /\ Returns("exit_early", NoValue, Ok(BoolV(exit_early(frame))))
    /\ UNCHANGED <<frame, stack, registers, resume_value, debug_assertions>>

Construct ==
    /\ ~panicked
    /\ Returns("construct", NoValue, Ok(BoolV(construct(frame))))
    /\ UNCHANGED <<frame, stack, registers, resume_value, debug_assertions>>

RegistersAlreadyPushed ==
    /\ ~panicked
    /\ Returns("registers_already_pushed", NoValue, Ok(BoolV(registers_already_pushed(frame))))
    /\ UNCHANGED <<frame, stack, registers, resume_value, debug_assertions>>

HasThisValueCached ==
    /\ ~panicked
    /\ Returns("has_this_value_cached", NoValue, Ok(BoolV(has_this_value_cached(frame))))
    /\ UNCHANGED <<frame, stack, registers, resume_value, debug_assertions>>

\* A resume kind is converted to the value handed to the frame.
FromGeneratorResumeKind(kind) ==
    /\ ~panicked
    /\ resume_value' = resume_kind_to_value(kind)
    /\ Returns("from_generator_resume_kind", KindV(kind), Ok(resume_kind_to_value(kind)))
    /\ UNCHANGED <<frame, stack, registers, debug_assertions>>

\* Some other value reaches the frame as its resume kind.
ResumeValue(value) ==
    /\ ~panicked
    /\ resume_value' = value
    /\ Returns("resume_value", value, Ok(NoValue))
    /\ UNCHANGED <<frame, stack, registers, debug_assertions>>

ToGeneratorResumeKind ==
    /\ ~panicked
    /\ Returns("to_generator_resume_kind", resume_value,
               KindResult(to_generator_resume_kind(resume_value)))
    /\ UNCHANGED <<frame, stack, registers, resume_value, debug_assertions>>

NextFrame ==
    \/ \E env_fp \in 0..MaxEnvFp : WithEnvFp(env_fp)
    \/ \E flags \in 0..AllFlags : WithFlags(flags)
    \/ \E early_exit \in BOOLEAN : SetExitEarly(early_exit)
    \/ ExitEarly
    \/ Construct
    \/ RegistersAlreadyPushed
    \/ HasThisValueCached
    \/ \E kind \in GeneratorResumeKinds : FromGeneratorResumeKind(kind)
    \/ \E value \in ResumeValues : ResumeValue(value)
    \/ ToGeneratorResumeKind

SpecFrame == InitFrame /\ [][NextFrame]_vars

\* C8: Normal, Throw and Return convert to the integers 0, 1 and 2, and
\* to_generator_resume_kind on the converted value returns the variant; on every
\* integer outside {0, 1, 2} and on every value that is not an integer
\* to_generator_resume_kind panics and returns no variant.
C8_ResumeKindRoundTrip ==
    /\ [](last.op = "from_generator_resume_kind" =>
            /\ last.arg = KindV("Normal") => resume_value = JsInteger(0)
            /\ last.arg = KindV("Throw") => resume_value = JsInteger(1)
            /\ last.arg = KindV("Return") => resume_value = JsInteger(2))
    /\ [](last.op = "to_generator_resume_kind" =>
            IF resume_value.tag = "integer" /\ resume_value.n \in {0, 1, 2}
            THEN last.outcome = "ok" /\ last.value \in {KindV(k) : k \in GeneratorResumeKinds}
            ELSE last.outcome = "panic" /\ last.value = NoValue /\ panicked)
    /\ [][(last.op = "from_generator_resume_kind" /\ last'.op = "to_generator_resume_kind") =>
            (last'.outcome = "ok" /\ last'.value = last.arg)]_vars

\* to_generator_resume_kind has returned Return for the value Return converts to.
C8_Witness ==
    /\ last.op = "to_generator_resume_kind"
    /\ last.outcome = "ok"
    /\ last.value = KindV("Return")
    /\ last.arg = resume_kind_to_value("Return")

\* C9: set_exit_early(b) makes exit_early() return b and leaves construct(),
\* registers_already_pushed() and has_this_value_cached() as they were: of the
\* flags it changes the EXIT_EARLY bit alone.
C9_SetExitEarly ==
    [][/\ last'.op = "set_exit_early" =>
            /\ exit_early(frame') = last'.arg.bool
            /\ construct(frame') = construct(frame)
            /\ registers_already_pushed(frame') = registers_already_pushed(frame)
            /\ has_this_value_cached(frame') = has_this_value_cached(frame)
            /\ frame'.flags \div 2 = frame.flags \div 2
            /\ frame'.flags % 2 = (IF last'.arg.bool THEN 1 ELSE 0)
       /\ (last.op = "set_exit_early" /\ last'.op = "exit_early") =>
            last'.value = last.arg
       /\ (last.op = "set_exit_early" /\ last'.op = "construct") =>
            last'.value = BoolV((frame.flags \div 2) % 2 = 1)]_vars

\* set_exit_early(false) has cleared EXIT_EARLY in a frame whose other three
\* flags are set.
C9_Witness ==
    /\ last.op = "set_exit_early"
    /\ last.arg = BoolV(FALSE)
    /\ frame.flags = CONSTRUCT + REGISTERS_ALREADY_PUSHED + THIS_VALUE_CACHED

====
